---------------------------- MODULE Spec2Model ----------------------------
(***************************************************************************)
(* A model of html2md (src/main.go): the pipeline ConvertHtmlToMarkdown    *)
(* (copy, convert, rename originals, lowercase directories, book.toml and  *)
(* SUMMARY.md) over a case-sensitive filesystem with POSIX rename          *)
(* semantics, and its pure helpers (ConvertHtmlLinksToMd, the .md swaps,   *)
(* sortDirectoryTree).                                                     *)
(*                                                                         *)
(* Go strings are modelled as sequences of one-character strings, paths    *)
(* are such strings with slash separators, as the code handles them.      *)
(***************************************************************************)
EXTENDS Naturals, Sequences, FiniteSets

(***************************************************************************)
(* Characters and the string functions of the strings package of Go.      *)
(***************************************************************************)

\* The printable ASCII characters in code order (position i is code i + 31); the
\* grave accent, which no name here uses, is spelled out.
AsciiOrder ==
  << " ", "!", "\"", "#", "$", "%", "&", "'", "(", ")", "*", "+", ",", "-", ".", "/",
     "0", "1", "2", "3", "4", "5", "6", "7", "8", "9", ":", ";", "<", "=", ">", "?",
     "@", "A", "B", "C", "D", "E", "F", "G", "H", "I", "J", "K", "L", "M", "N", "O",
     "P", "Q", "R", "S", "T", "U", "V", "W", "X", "Y", "Z", "[", "\\", "]", "^", "_",
     "grave", "a", "b", "c", "d", "e", "f", "g", "h", "i", "j", "k", "l", "m", "n", "o",
     "p", "q", "r", "s", "t", "u", "v", "w", "x", "y", "z", "{", "|", "}", "~" >>

CharSet == { AsciiOrder[i] : i \in 1..Len(AsciiOrder) }

Ord == [ c \in CharSet |-> CHOOSE i \in 1..Len(AsciiOrder) : AsciiOrder[i] = c ]

\* unicode.ToLower on one ASCII character: "A".."Z" move 32 codes up.
LowerChar == [ c \in CharSet |->
                 IF Ord[c] >= Ord["A"] /\ Ord[c] <= Ord["Z"]
                 THEN AsciiOrder[Ord[c] + 32] ELSE c ]

\* strings.ToLower
ToLower(s) == [ i \in 1..Len(s) |-> LowerChar[s[i]] ]

\* strings.HasPrefix
HasPrefix(s, p) == Len(s) >= Len(p) /\ SubSeq(s, 1, Len(p)) = p

\* strings.HasSuffix
HasSuffix(s, p) == Len(s) >= Len(p) /\ SubSeq(s, Len(s) - Len(p) + 1, Len(s)) = p

\* strings.TrimSuffix: one trailing copy of p is removed, if there is one.
TrimSuffix(s, p) == IF HasSuffix(s, p) THEN SubSeq(s, 1, Len(s) - Len(p)) ELSE s

\* strings.ReplaceAll(s, "\\", "/")
BackslashToSlash(s) == [ i \in 1..Len(s) |-> IF s[i] = "\\" THEN "/" ELSE s[i] ]

\* The comparison of Go strings (a < b): byte-wise lexicographic.
RECURSIVE StrLess(_, _)
StrLess(a, b) ==
  IF b = << >> THEN FALSE
  ELSE IF a = << >> THEN TRUE
  ELSE IF a[1] # b[1] THEN Ord[a[1]] < Ord[b[1]]
  ELSE StrLess(Tail(a), Tail(b))

\* The least index j >= i with s[j] = c, or 0.
IndexFrom(s, c, i) ==
  LET hits == { j \in i..Len(s) : s[j] = c }
  IN  IF hits = {} THEN 0 ELSE CHOOSE j \in hits : \A k \in hits : j <= k

\* The greatest index j with s[j] = c, or 0 (strings.LastIndex).
LastIndex(s, c) ==
  LET hits == { j \in 1..Len(s) : s[j] = c }
  IN  IF hits = {} THEN 0 ELSE CHOOSE j \in hits : \A k \in hits : j >= k

\* strings.Split(s, "/")
RECURSIVE SplitSlash(_)
SplitSlash(s) ==
  LET i == IndexFrom(s, "/", 1)
  IN  IF i = 0 THEN << s >>
      ELSE << SubSeq(s, 1, i - 1) >> \o SplitSlash(SubSeq(s, i + 1, Len(s)))

\* strings.Join(parts, "/")
RECURSIVE JoinSlash(_)
JoinSlash(parts) ==
  IF parts = << >> THEN << >>
  ELSE IF Len(parts) = 1 THEN parts[1]
  ELSE parts[1] \o << "/" >> \o JoinSlash(Tail(parts))

(***************************************************************************)
(* The path/filepath package of Go on a slash-separated platform.          *)
(***************************************************************************)

\* The segments Clean keeps: "" and "." dropped, ".." removing the segment before
\* it (a ".." with nothing before it is kept in a relative path and dropped in a
\* rooted one).
RECURSIVE CleanParts(_, _, _)
CleanParts(parts, acc, rooted) ==
  IF parts = << >> THEN acc
  ELSE LET p == parts[1]
           rest == Tail(parts)
       IN  IF p = << >> \/ p = << "." >> THEN CleanParts(rest, acc, rooted)
           ELSE IF p = << ".", "." >>
                THEN IF acc # << >> /\ acc[Len(acc)] # << ".", "." >>
                     THEN CleanParts(rest, SubSeq(acc, 1, Len(acc) - 1), rooted)
                     ELSE IF rooted THEN CleanParts(rest, acc, rooted)
                     ELSE CleanParts(rest, Append(acc, p), rooted)
           ELSE CleanParts(rest, Append(acc, p), rooted)

\* filepath.Clean
Clean(path) ==
  IF path = << >> THEN << "." >>
  ELSE LET rooted == path[1] = "/"
           body == JoinSlash(CleanParts(SplitSlash(path), << >>, rooted))
           out == IF rooted THEN << "/" >> \o body ELSE body
       IN  IF out = << >> THEN << "." >> ELSE out

\* filepath.Dir: everything up to the last separator, cleaned.
Dir(path) == Clean(SubSeq(path, 1, LastIndex(path, "/")))

\* The string s without its trailing "/" characters.
RECURSIVE StripTrailingSlashes(_)
StripTrailingSlashes(s) ==
  IF s # << >> /\ s[Len(s)] = "/"
  THEN StripTrailingSlashes(SubSeq(s, 1, Len(s) - 1)) ELSE s

\* filepath.Base
Base(path) ==
  IF path = << >> THEN << "." >>
  ELSE LET s == StripTrailingSlashes(path)
       IN  IF s = << >> THEN << "/" >>
           ELSE SubSeq(s, LastIndex(s, "/") + 1, Len(s))

\* filepath.Join of two elements: empty elements are ignored, the result is cleaned.
Join(a, b) ==
  IF a = << >> /\ b = << >> THEN << >>
  ELSE IF a = << >> THEN Clean(b)
  ELSE IF b = << >> THEN Clean(a)
  ELSE Clean(a \o << "/" >> \o b)

\* filepath.Rel(base, path) for a path at or under base, as Walk hands them out.
Rel(base, path) ==
  IF path = base THEN << "." >> ELSE SubSeq(path, Len(base) + 2, Len(path))

(***************************************************************************)
(* Names the program spells out.                                           *)
(***************************************************************************)

ExtHtml == << ".", "h", "t", "m", "l" >>
ExtMd == << ".", "m", "d" >>
Dot == << "." >>
HttpPrefix == << "h", "t", "t", "p" >>
TempRenameSuffix == << "_", "t", "e", "m", "p", "_", "r", "e", "n", "a", "m", "e" >>
BookTomlName == << "b", "o", "o", "k", ".", "t", "o", "m", "l" >>
SummaryName == << "S", "U", "M", "M", "A", "R", "Y", ".", "m", "d" >>
ReadmeUpperName == << "R", "E", "A", "D", "M", "E", ".", "m", "d" >>
ReadmeLowerName == << "r", "e", "a", "d", "m", "e", ".", "m", "d" >>
IndexHtmlName == << "i", "n", "d", "e", "x", ".", "h", "t", "m", "l" >>
IntroLabel == << "I", "n", "t", "r", "o", "d", "u", "c", "t", "i", "o", "n" >>

(***************************************************************************)
(* The .md path derivations and ConvertHtmlLinksToMd.                      *)
(***************************************************************************)

\* ConvertDirectoryToLowercase: every segment of the directory path lowercased.
ConvertDirectoryToLowercase(dirPath) ==
  LET parts == SplitSlash(BackslashToSlash(dirPath))
  IN  JoinSlash([ i \in 1..Len(parts) |-> ToLower(parts[i]) ])

\* ConvertSingleHtmlFile: the output path of a source document.
MdPathOf(htmlPath) == TrimSuffix(TrimSuffix(htmlPath, ExtHtml), ExtMd) \o ExtMd

\* The file name of a link target with .html, then .md, trimmed.
LinkBaseFilename(filename) == TrimSuffix(TrimSuffix(filename, ExtHtml), ExtMd)

\* The link target built from the directory and the file name of the matched path.
LinkJoin(dir, filename) ==
  IF dir = Dot \/ dir = << >>
  THEN LinkBaseFilename(filename) \o ExtMd
  ELSE BackslashToSlash(Join(ConvertDirectoryToLowercase(dir),
                             LinkBaseFilename(filename) \o ExtMd))

\* The branch of ConvertHtmlLinksToMd for a relative target.
RelativeLinkMdPath(htmlPath) ==
  LET p == BackslashToSlash(htmlPath) IN LinkJoin(Dir(p), Base(p))

\* The branch of ConvertHtmlLinksToMd for a target starting with http or a slash.
AbsoluteLinkMdPath(htmlPath) == LinkJoin(Dir(htmlPath), Base(htmlPath))

\* Whether the target takes the relative branch.
IsRelativeTarget(htmlPath) ==
  ~HasPrefix(htmlPath, HttpPrefix) /\ ~HasPrefix(htmlPath, << "/" >>)

\* The new target path of a matched link.
LinkMdPath(htmlPath) ==
  IF IsRelativeTarget(htmlPath)
  THEN RelativeLinkMdPath(htmlPath) ELSE AbsoluteLinkMdPath(htmlPath)

\* The greatest index at which .html starts in t, or 0.
LastHtmlIn(t) ==
  LET hits == { j \in 1..Len(t) : j + 4 <= Len(t) /\ SubSeq(t, j, j + 4) = ExtHtml }
  IN  IF hits = {} THEN 0 ELSE CHOOSE j \in hits : \A k \in hits : j >= k

\* linkPattern anchored at position i of s. The label runs to the first closing
\* bracket, which an opening parenthesis must follow; the target runs to the first
\* closing parenthesis; the greedy second group ends with the last .html of the
\* target and the third group is what follows it.
MatchAt(s, i) ==
  LET none == [ ok |-> FALSE, label |-> << >>, htmlPath |-> << >>,
                anchor |-> << >>, last |-> 0 ]
      j == IndexFrom(s, "]", i + 1)
      k == IF j = 0 THEN 0 ELSE IndexFrom(s, ")", j + 2)
      t == SubSeq(s, j + 2, k - 1)
      h == LastHtmlIn(t)
  IN  IF i > Len(s) \/ s[i] # "[" THEN none
      ELSE IF j = 0 \/ j + 1 > Len(s) \/ s[j + 1] # "(" THEN none
      ELSE IF k = 0 \/ h = 0 THEN none
      ELSE [ ok |-> TRUE, label |-> SubSeq(s, i + 1, j - 1),
             htmlPath |-> SubSeq(t, 1, h + 4),
             anchor |-> SubSeq(t, h + 5, Len(t)), last |-> k ]

\* The replacement of one match: fmt.Sprintf("[%s](%s%s)", linkText, mdPath, anchor).
LinkReplacement(m) ==
  << "[" >> \o m.label \o << "]", "(" >> \o LinkMdPath(m.htmlPath) \o m.anchor \o << ")" >>

\* ReplaceAllStringFunc from position i on: the leftmost match is replaced and the
\* scan goes on behind it; a character no match starts at is copied.
RECURSIVE RewriteFrom(_, _)
RewriteFrom(s, i) ==
  IF i > Len(s) THEN << >>
  ELSE LET m == MatchAt(s, i)
       IN  IF m.ok THEN LinkReplacement(m) \o RewriteFrom(s, m.last + 1)
           ELSE << s[i] >> \o RewriteFrom(s, i + 1)

\* ConvertHtmlLinksToMd
ConvertHtmlLinksToMd(content) == RewriteFrom(content, 1)

\* The matches ReplaceAllStringFunc finds in s from position i on, in order.
RECURSIVE MatchesFrom(_, _)
MatchesFrom(s, i) ==
  IF i > Len(s) THEN << >>
  ELSE LET m == MatchAt(s, i)
       IN  IF m.ok THEN << m >> \o MatchesFrom(s, m.last + 1)
           ELSE MatchesFrom(s, i + 1)

\* BuildDirectoryTreeAfterRename: the display path of a .md entry.
DisplayPathOf(relPath) ==
  ToLower(TrimSuffix(TrimSuffix(relPath, ExtMd), ExtMd) \o ExtMd)

(***************************************************************************)
(* The filesystem: a function from the paths that exist to their entries.  *)
(* Paths are relative to the working directory, which always exists and is *)
(* the parent of the input and output directories. Names are compared      *)
(* byte for byte, and rename follows POSIX.                                *)
(***************************************************************************)

DirNode == [ isDir |-> TRUE, src |-> << >>, form |-> "dir", body |-> << >> ]

\* A regular file: the input path its bytes come from, what they are, and the text.
FileNode(src, form, body) == [ isDir |-> FALSE, src |-> src, form |-> form, body |-> body ]

\* os.Stat succeeds.
Exists(f, p) == p = Dot \/ p \in DOMAIN f

IsDirAt(f, p) == p = Dot \/ (p \in DOMAIN f /\ f[p].isDir)

IsFileAt(f, p) == p \in DOMAIN f /\ ~f[p].isDir

\* f with path p holding entry e.
Put(f, p, e) == [ q \in DOMAIN f \cup {p} |-> IF q = p THEN e ELSE f[q] ]

\* Whether p lies strictly below directory d.
IsUnder(d, p) == d = Dot \/ HasPrefix(p, d \o << "/" >>)

\* The names in directory d, as os.ReadDir lists them.
ChildNames(f, d) ==
  { SubSeq(p, Len(d) + 2, Len(p)) :
      p \in { q \in DOMAIN f : HasPrefix(q, d \o << "/" >>)
                               /\ IndexFrom(q, "/", Len(d) + 2) = 0 } }

\* The elements of a set of strings in ascending order (sort.Strings).
RECURSIVE SortedNames(_)
SortedNames(S) ==
  IF S = {} THEN << >>
  ELSE LET m == CHOOSE x \in S : \A y \in S : ~StrLess(y, x)
       IN  << m >> \o SortedNames(S \ {m})

\* filepath.Walk from path p, which exists: p itself, then, for a directory, the
\* walk of each entry in the order of its sorted names.
RECURSIVE WalkFrom(_, _)
RECURSIVE WalkNames(_, _, _)
WalkFrom(f, p) ==
  IF f[p].isDir THEN << p >> \o WalkNames(f, p, SortedNames(ChildNames(f, p)))
  ELSE << p >>
WalkNames(f, p, names) ==
  IF names = << >> THEN << >>
  ELSE WalkFrom(f, Join(p, names[1])) \o WalkNames(f, p, Tail(names))

\* The result of an operation on the filesystem: the new filesystem and whether
\* the operation returned an error.
Ok(f) == [ fs |-> f, err |-> FALSE ]
Fail(f) == [ fs |-> f, err |-> TRUE ]

\* os.MkdirAll: the missing directories of the path are created; a file in the
\* way is an error.
RECURSIVE MkdirAll(_, _)
MkdirAll(f, p) ==
  IF p = Dot THEN Ok(f)
  ELSE IF p \in DOMAIN f THEN (IF f[p].isDir THEN Ok(f) ELSE Fail(f))
  ELSE LET up == MkdirAll(f, Dir(p))
       IN  IF up.err THEN up ELSE Ok(Put(up.fs, p, DirNode))

\* os.WriteFile and os.Create followed by the write: the file is created or
\* replaced; a directory at the path, or no directory to hold it, is an error.
WriteFile(f, p, e) ==
  IF IsDirAt(f, p) \/ ~IsDirAt(f, Dir(p)) THEN Fail(f) ELSE Ok(Put(f, p, e))

\* CopyFile: open the source, create the directory of the target, create the
\* target and copy the bytes.
CopyFile(f, src, dst) ==
  IF ~IsFileAt(f, src) THEN Fail(f)
  ELSE LET made == MkdirAll(f, Dir(dst))
       IN  IF made.err THEN made ELSE WriteFile(made.fs, dst, f[src])

\* Whether the directory at p holds nothing.
IsEmptyDir(f, p) == \A q \in DOMAIN f : ~HasPrefix(q, p \o << "/" >>)

\* Whether rename(old, new) succeeds: the source exists, the target is not inside
\* it, the directory of the target exists, and what the target replaces is a file
\* (for a file) or an empty directory (for a directory).
CanRename(f, old, new) ==
  /\ old \in DOMAIN f
  /\ ~HasPrefix(new, old \o << "/" >>)
  /\ IsDirAt(f, Dir(new))
  /\ new \in DOMAIN f /\ new # old =>
       IF f[old].isDir THEN f[new].isDir /\ IsEmptyDir(f, new) ELSE ~f[new].isDir

\* The entries after a successful rename: old and all below it move to new.
Moved(f, old, new) ==
  LET moving == { q \in DOMAIN f : q = old \/ HasPrefix(q, old \o << "/" >>) }
      staying == (DOMAIN f \ moving) \ {new}
      to(q) == new \o SubSeq(q, Len(old) + 1, Len(q))
  IN  [ r \in staying \cup { to(q) : q \in moving } |->
          IF r \in staying THEN f[r]
          ELSE f[CHOOSE q \in moving : to(q) = r] ]

\* os.Rename
Rename(f, old, new) ==
  IF ~CanRename(f, old, new) THEN Fail(f)
  ELSE IF old = new THEN Ok(f)
  ELSE Ok(Moved(f, old, new))

(***************************************************************************)
(* The stages of the pipeline as functions on the filesystem.              *)
(***************************************************************************)

\* The test ProcessHtmlFiles and RenameHtmlFiles apply to a walked entry.
IsHtmlDocument(f, path) == ~f[path].isDir /\ HasSuffix(ToLower(path), ExtHtml)

\* CopyDirectory, one entry of the walk of src: a directory is created under dst,
\* a file is copied there.
CopyEntryTo(f, src, dst, path) ==
  LET dstPath == Join(dst, Rel(src, path))
  IN  IF f[path].isDir THEN MkdirAll(f, dstPath) ELSE CopyFile(f, path, dstPath)

\* The external converter and the link rewrite applied to the bytes of a source
\* document: the text stays that of the same document, now as Markdown, with its
\* links rewritten.
ConvertedDocument(e) == FileNode(e.src, "md", ConvertHtmlLinksToMd(e.body))

\* ConvertSingleHtmlFile
ConvertSingleHtmlFile(f, htmlPath) ==
  LET mdPath == MdPathOf(htmlPath)
      made == MkdirAll(f, Dir(mdPath))
  IN  IF ~IsFileAt(f, htmlPath) THEN Fail(f)
      ELSE IF made.err THEN made
      ELSE WriteFile(made.fs, mdPath, ConvertedDocument(f[htmlPath]))

\* A renaming that keeps the letter case of the file name.
RenamedHtmlPathKeepingCase(htmlPath, prefix) ==
  Join(Dir(htmlPath), prefix \o Base(htmlPath))

\* RenameHtmlFiles: the new path of a collected document.
RenamedHtmlPath(htmlPath, prefix) ==
  Join(Dir(htmlPath), prefix \o ToLower(Base(htmlPath)))

\* A renaming that does not look whether the new path is taken.
RenameHtmlFileUnchecked(f, htmlPath, prefix) ==
  Rename(f, htmlPath, RenamedHtmlPath(htmlPath, prefix)).fs

\* RenameHtmlFiles, one collected document: skipped when the new path exists,
\* renamed otherwise; a rename that fails is logged and changes nothing.
RenameHtmlFile(f, htmlPath, prefix) ==
  LET newPath == RenamedHtmlPath(htmlPath, prefix)
  IN  IF Exists(f, newPath) THEN f ELSE Rename(f, htmlPath, newPath).fs

\* A merge that copies a file over the one the target directory holds.
MergeStepOverwriting(f, srcDir, dstDir, path) ==
  LET dstPath == Join(dstDir, Rel(srcDir, path))
  IN  IF path = srcDir THEN Ok(f)
      ELSE IF f[path].isDir THEN MkdirAll(f, dstPath)
      ELSE CopyFile(f, path, dstPath)

\* mergeDirectories: the callback of its walk on one entry of srcDir. The source
\* directory is passed over, a directory is created under dstDir, and a file is
\* copied unless the target exists.
MergeStep(f, srcDir, dstDir, path) ==
  LET dstPath == Join(dstDir, Rel(srcDir, path))
  IN  IF path = srcDir THEN Ok(f)
      ELSE IF f[path].isDir THEN MkdirAll(f, dstPath)
      ELSE IF Exists(f, dstPath) THEN Ok(f)
      ELSE CopyFile(f, path, dstPath)

\* mergeDirectories: the walk over the entries of srcDir; the first error ends it.
RECURSIVE MergeEntries(_, _, _, _)
MergeEntries(f, srcDir, dstDir, paths) ==
  IF paths = << >> THEN Ok(f)
  ELSE LET step == MergeStep(f, srcDir, dstDir, paths[1])
       IN  IF step.err THEN step
           ELSE MergeEntries(step.fs, srcDir, dstDir, Tail(paths))

\* mergeDirectories
mergeDirectories(f, srcDir, dstDir) ==
  MergeEntries(f, srcDir, dstDir, WalkFrom(f, srcDir))

\* A rename through the temporary name that is not rolled back.
TwoPhaseRenameNoRollback(f, dirPath, finalPath) ==
  LET tempPath == Join(Dir(dirPath), Base(dirPath) \o TempRenameSuffix)
      one == Rename(f, dirPath, tempPath)
      two == Rename(one.fs, tempPath, finalPath)
  IN  IF ~Exists(f, dirPath) THEN Ok(f)
      ELSE IF one.err THEN Fail(f)
      ELSE IF two.err THEN Fail(one.fs)
      ELSE two

\* renameSingleDirectoryToLowercase after the merge: the rename through the
\* temporary name, rolled back when the second rename fails.
TwoPhaseRename(f, dirPath, finalPath) ==
  LET tempPath == Join(Dir(dirPath), Base(dirPath) \o TempRenameSuffix)
      one == Rename(f, dirPath, tempPath)
      two == Rename(one.fs, tempPath, finalPath)
  IN  IF ~Exists(f, dirPath) THEN Ok(f)
      ELSE IF one.err THEN Fail(f)
      ELSE IF two.err THEN Fail(Rename(one.fs, tempPath, dirPath).fs)
      ELSE two

\* renameSingleDirectoryToLowercase
renameSingleDirectoryToLowercase(f, dirPath) ==
  LET currentName == Base(dirPath)
      lowerName == ToLower(currentName)
      finalPath == Join(Dir(dirPath), lowerName)
      merged == IF Exists(f, finalPath)
                THEN mergeDirectories(f, finalPath, dirPath) ELSE Ok(f)
  IN  IF currentName = lowerName THEN Ok(f)
      ELSE IF merged.err THEN merged
      ELSE TwoPhaseRename(merged.fs, dirPath, finalPath)

\* A sequence in reverse order.
Reverse(q) == [ i \in 1..Len(q) |-> q[Len(q) + 1 - i] ]

\* RenameHtmlFiles: the documents its walk collects.
CollectHtmlFiles(f, dir) ==
  LET Test(p) == IsHtmlDocument(f, p) IN SelectSeq(WalkFrom(f, dir), Test)

\* The directories of the walk in the order of the walk, parents first.
CollectDirectoriesTopDown(f, rootDir) ==
  LET Test(p) == f[p].isDir /\ p # rootDir
  IN  SelectSeq(WalkFrom(f, rootDir), Test)

\* RenameDirectoriesToLowercase: the directories its walk collects, reversed.
CollectDirectories(f, rootDir) ==
  LET Test(p) == f[p].isDir /\ p # rootDir
  IN  Reverse(SelectSeq(WalkFrom(f, rootDir), Test))

(***************************************************************************)
(* The directory tree (DirEntry) and the outline.                          *)
(***************************************************************************)

\* A DirEntry without children yet.
Entry(name, path, isDir) ==
  [ Name |-> name, Path |-> path, IsDir |-> isDir, Children |-> << >> ]

\* The index of the first child of node that is a directory named part, or 0
\* (the inner loop of findParentEntry).
ChildDirIndex(node, part) ==
  LET hits == { i \in 1..Len(node.Children) :
                  node.Children[i].IsDir /\ node.Children[i].Name = part }
  IN  IF hits = {} THEN 0 ELSE CHOOSE i \in hits : \A k \in hits : i <= k

\* The tree with entry appended to the children of the node findParentEntry
\* reaches along parts; the tree is unchanged when findParentEntry finds none.
RECURSIVE AppendAt(_, _, _)
AppendAt(node, parts, entry) ==
  IF parts = << >> THEN [ node EXCEPT !.Children = Append(@, entry) ]
  ELSE LET i == ChildDirIndex(node, parts[1])
       IN  IF i = 0 THEN node
           ELSE [ node EXCEPT !.Children[i] = AppendAt(@, Tail(parts), entry) ]

\* findParentEntry followed by the append to what it returns.
AppendToParent(root, targetPath, entry) ==
  IF targetPath = << >> \/ targetPath = Dot THEN AppendAt(root, << >>, entry)
  ELSE AppendAt(root, SplitSlash(BackslashToSlash(targetPath)), entry)

\* The first tests of the walk callback of BuildDirectoryTreeAfterRename: the
\* root, hidden entries, book.toml, SUMMARY.md and prefixed .html files are left.
IsSkippedEntry(rootDir, path, prefix) ==
  LET name == Base(path)
  IN  \/ path = rootDir
      \/ HasPrefix(name, Dot) \/ name = BookTomlName \/ name = SummaryName
      \/ HasSuffix(ToLower(name), ExtHtml) /\ HasPrefix(name, prefix)

\* The walk callback of BuildDirectoryTreeAfterRename on one entry.
AddWalkedEntry(root, f, rootDir, path, prefix) ==
  LET name == Base(path)
      relPath == BackslashToSlash(Rel(rootDir, path))
      isMd == HasSuffix(ToLower(name), ExtMd)
      displayPath == IF isMd THEN DisplayPathOf(relPath) ELSE relPath
      parentPath == BackslashToSlash(Dir(relPath))
  IN  IF IsSkippedEntry(rootDir, path, prefix) THEN root
      ELSE IF ~isMd /\ ~f[path].isDir THEN root
      ELSE AppendToParent(root, parentPath, Entry(name, displayPath, f[path].isDir))

RECURSIVE AddWalkedEntries(_, _, _, _, _)
AddWalkedEntries(root, f, rootDir, paths, prefix) ==
  IF paths = << >> THEN root
  ELSE AddWalkedEntries(AddWalkedEntry(root, f, rootDir, paths[1], prefix),
                        f, rootDir, Tail(paths), prefix)

\* An order by name alone, directories not put first.
SwapNeededByNameOnly(a, b) == StrLess(b.Name, a.Name)

\* Whether entry a must move behind entry b (the tests of the inner loop of
\* sortDirectoryTree that end in a swap).
SwapNeeded(a, b) ==
  IF a.IsDir /\ ~b.IsDir THEN FALSE
  ELSE IF ~a.IsDir /\ b.IsDir THEN TRUE
  ELSE StrLess(b.Name, a.Name)

\* An inner loop that looks at the next entry only.
SortInnerNextOnly(ch, i, j) ==
  IF j > Len(ch) \/ ~SwapNeeded(ch[i], ch[j]) THEN ch
  ELSE [ ch EXCEPT ![i] = ch[j], ![j] = ch[i] ]

\* The inner loop of sortDirectoryTree for index i, from index j on.
RECURSIVE SortInner(_, _, _)
SortInner(ch, i, j) ==
  IF j > Len(ch) THEN ch
  ELSE IF SwapNeeded(ch[i], ch[j])
       THEN SortInner([ ch EXCEPT ![i] = ch[j], ![j] = ch[i] ], i, j + 1)
       ELSE SortInner(ch, i, j + 1)

\* The outer loop of sortDirectoryTree from index i on.
RECURSIVE SortOuter(_, _)
SortOuter(ch, i) ==
  IF i > Len(ch) THEN ch ELSE SortOuter(SortInner(ch, i, i + 1), i + 1)

\* sortDirectoryTree
RECURSIVE sortDirectoryTree(_)
sortDirectoryTree(entry) ==
  IF ~entry.IsDir THEN entry
  ELSE LET sorted == SortOuter(entry.Children, 1)
       IN  [ entry EXCEPT !.Children =
               [ i \in 1..Len(sorted) |-> sortDirectoryTree(sorted[i]) ] ]

\* BuildDirectoryTreeAfterRename
BuildDirectoryTreeAfterRename(f, rootDir, prefix) ==
  sortDirectoryTree(
    AddWalkedEntries(Entry(Base(rootDir), << >>, TRUE), f, rootDir,
                     WalkFrom(f, rootDir), prefix))

\* A line of SUMMARY.md: an unlinked heading (indent, two spaces, name) or a
\* linked entry (indent, "- [label](target)"); depth counts the indent steps.
HeadingLine(depth, name) ==
  [ linked |-> FALSE, depth |-> depth, label |-> name, target |-> << >> ]
LinkLine(depth, label, target) ==
  [ linked |-> TRUE, depth |-> depth, label |-> label, target |-> target ]

\* writeSummaryEntries
RECURSIVE writeSummaryEntries(_, _)
writeSummaryEntries(entries, depth) ==
  IF entries = << >> THEN << >>
  ELSE LET entry == entries[1]
           lines == IF entry.IsDir
                    THEN << HeadingLine(depth, entry.Name) >>
                         \o writeSummaryEntries(entry.Children, depth + 1)
                    ELSE IF HasSuffix(ToLower(entry.Name), ExtMd)
                    THEN << LinkLine(depth, TrimSuffix(entry.Name, ExtMd), entry.Path) >>
                    ELSE << >>
       IN  lines \o writeSummaryEntries(Tail(entries), depth)

\* hasIntroFile
hasIntroFile(f, dir) ==
  \E name \in { IndexHtmlName, ReadmeUpperName, ReadmeLowerName } :
    Exists(f, Join(dir, name))

\* GenerateSummaryMd: the lines written to SUMMARY.md for the tree rootEntry.
SummaryLines(f, outputDir, root) ==
  (IF hasIntroFile(f, outputDir)
   THEN << LinkLine(0, IntroLabel, ReadmeUpperName) >> ELSE << >>)
  \o writeSummaryEntries(root.Children, 0)

\* strings.ReplaceAll of "_" and of "-" by a space (the title of book.toml).
TitleOf(name) ==
  [ i \in 1..Len(name) |-> IF name[i] = "_" \/ name[i] = "-" THEN " " ELSE name[i] ]

(***************************************************************************)
(* The inputs of the pipeline.                                             *)
(***************************************************************************)

\* The most entries an input tree is built from.
MaxFiles == 3

\* args.InputDir, and the defaults of args.Suffix and args.RenamePrefix.
InputDirName == << "d", "o", "c" >>
DefaultSuffix == << "_", "c", "o", "n", "v", "e", "r", "t", "e", "d" >>
DefaultPrefix == << "_" >>

\* The entries input trees are built from: a path below the input directory, and
\* whether it is a directory (the directories above an entry come with it).
EntryPool ==
  << [ p |-> << "p", "a", "g", "e", ".", "h", "t", "m", "l" >>, d |-> FALSE ],
     [ p |-> << "S", "u", "b", "/", "c", "h", "i", "l", "d", ".", "h", "t", "m", "l" >>, d |-> FALSE ],
     [ p |-> << "s", "u", "b", "/", "a", ".", "t", "x", "t" >>, d |-> FALSE ],
     [ p |-> << "S", "u", "b", "/", "a", ".", "t", "x", "t" >>, d |-> FALSE ],
     [ p |-> << "s", "u", "b", "/", "c", "h", "i", "l", "d", ".", "h", "t", "m", "l" >>, d |-> FALSE ],
     [ p |-> << "P", "a", "g", "e", ".", "h", "t", "m", "l" >>, d |-> FALSE ],
     [ p |-> << "p", "a", "g", "e", ".", "H", "T", "M", "L" >>, d |-> FALSE ],
     [ p |-> << "x", ".", "m", "d", ".", "h", "t", "m", "l" >>, d |-> FALSE ],
     [ p |-> << "R", "E", "A", "D", "M", "E", ".", "m", "d" >>, d |-> FALSE ],
     [ p |-> << "S", "u", "b", "/", "D", "e", "e", "p", "/", "n", ".", "h", "t", "m", "l" >>, d |-> FALSE ],
     [ p |-> << "s", "u", "b" >>, d |-> TRUE ],
     [ p |-> << "_", "p", "a", "g", "e", ".", "h", "t", "m", "l" >>, d |-> TRUE ],
     [ p |-> << "s", "u", "b", "/", "a", ".", "t", "x", "t" >>, d |-> TRUE ],
     [ p |-> << "x", ".", "h", "t", "m", "l" >>, d |-> FALSE ],
     [ p |-> << "S", "u", "b", "_", "t", "e", "m", "p", "_", "r", "e", "n", "a", "m", "e" >>, d |-> FALSE ],
     [ p |-> << "p", "a", "g", "e", ".", "m", "d" >>, d |-> FALSE ] >>

\* The Markdown the converter yields for the documents of a run.
DocTexts ==
  { << "[", "c", "]", "(", "S", "u", "b", "/", "c", "h", "i", "l", "d", ".", "h", "t", "m", "l", "#", "s", ")", "[", "p", "]", "(", ".", ".", "/", "p", "a", "g", "e", ".", "h", "t", "m", "l", ")" >> }

\* The values of args.RenamePrefix: the default and the empty prefix.
Prefixes == { DefaultPrefix, << >> }

\* The values of args.Suffix: the default and the empty suffix.
Suffixes == { DefaultSuffix, << >> }

\* The directories above a path, the path itself left out.
RECURSIVE Ancestors(_)
Ancestors(p) == IF Dir(p) = Dot THEN {} ELSE {Dir(p)} \cup Ancestors(Dir(p))

\* The file an input tree holds at relative path rel: a source document with the
\* text of the run when the name ends in .html in any case, other bytes otherwise.
InputFile(rel, text) ==
  IF HasSuffix(ToLower(rel), ExtHtml) THEN FileNode(rel, "html", text)
  ELSE FileNode(rel, "raw", << >>)

\* The filesystem that holds the input directory with the chosen pool entries.
InputTree(chosen, text) ==
  LET at(i) == Join(InputDirName, EntryPool[i].p)
      own == { at(i) : i \in chosen }
      dirs == {InputDirName} \cup UNION { Ancestors(at(i)) : i \in chosen }
             \cup { at(i) : i \in { k \in chosen : EntryPool[k].d } }
  IN  [ q \in own \cup dirs |->
          IF q \in dirs THEN DirNode
          ELSE InputFile(Rel(InputDirName, q), text) ]

\* The filesystem without the input directory.
NoInput == [ q \in {} |-> DirNode ]

\* The filesystem in which the input path names a regular file.
InputIsFile == [ q \in {InputDirName} |-> FileNode(<< >>, "raw", << >>) ]

\* The sets of at most MaxFiles pool entries.
Choices == { c \in SUBSET (1..Len(EntryPool)) : Cardinality(c) <= MaxFiles }

\* The output directory ConvertHtmlToMarkdown derives from its arguments.
OutputDirOf(a) ==
  LET inputDir == Clean(a.InputDir)
  IN  Join(Dir(inputDir), Base(inputDir) \o a.Suffix)

(***************************************************************************)
(* The state.                                                              *)
(***************************************************************************)

VARIABLES
  fs,        \* the filesystem
  fs0,       \* the filesystem before the run
  fsLower0,  \* the filesystem when RenameDirectoriesToLowercase began
  args,      \* the parsed arguments
  pc,        \* the stage ConvertHtmlToMarkdown is in
  queue,     \* the entries the current stage has still to handle
  rootEntry, \* the tree GenerateSummaryMd built
  err,       \* whether ConvertHtmlToMarkdown returned an error
  sample,    \* the input of a helper checked on its own
  applied    \* the results of applying the helper once, twice, ...

vars == << fs, fs0, fsLower0, args, pc, queue, rootEntry, err, sample, applied >>

outputDir == OutputDirOf(args)

NoTree == Entry(<< >>, << >>, FALSE)

Init ==
  /\ \E text \in DocTexts :
       fs \in {NoInput, InputIsFile} \cup { InputTree(c, text) : c \in Choices }
  /\ fs0 = fs
  /\ fsLower0 = NoInput
  /\ \E prefix \in Prefixes : \E suffix \in Suffixes :
       args = [ InputDir |-> InputDirName, Suffix |-> suffix,
                RenamePrefix |-> prefix ]
  /\ pc = "Start"
  /\ queue = << >>
  /\ rootEntry = NoTree
  /\ err = FALSE
  /\ sample = << >>
  /\ applied = << >>

helperVars == << sample, applied >>

\* ConvertHtmlToMarkdown returns the error of a stage.
Abort(f) ==
  /\ fs' = f
  /\ err' = TRUE
  /\ pc' = "Done"
  /\ queue' = << >>

\* ConvertHtmlToMarkdown up to the walk of CopyDirectory: the input is looked up,
\* the output directory is derived and, when it does not exist, created.
Start ==
  /\ pc = "Start"
  /\ IF ~Exists(fs, args.InputDir) THEN Abort(fs)
     ELSE IF ~Exists(fs, outputDir)
     THEN LET made == MkdirAll(fs, outputDir)
          IN  IF made.err THEN Abort(made.fs)
              ELSE /\ fs' = made.fs
                   /\ queue' = WalkFrom(fs, args.InputDir)
                   /\ pc' = "Copy"
                   /\ err' = err
     ELSE /\ pc' = "Copy"
          /\ UNCHANGED << fs, queue, err >>
  /\ UNCHANGED << fs0, fsLower0, args, rootEntry, helperVars >>

\* CopyDirectory: the callback on the next walked entry.
CopyEntry ==
  /\ pc = "Copy" /\ queue # << >>
  /\ LET r == CopyEntryTo(fs, args.InputDir, outputDir, Head(queue))
     IN  IF r.err THEN Abort(r.fs)
         ELSE /\ fs' = r.fs
              /\ queue' = Tail(queue)
              /\ UNCHANGED << pc, err >>
  /\ UNCHANGED << fs0, fsLower0, args, rootEntry, helperVars >>

\* A conversion stage that starts while CopyDirectory is still at work.
BeginProcessEarly ==
  /\ pc = "Copy"
  /\ queue' = WalkFrom(fs, outputDir)
  /\ pc' = "Process"
  /\ UNCHANGED << fs, fs0, fsLower0, args, rootEntry, err, helperVars >>

\* ProcessHtmlFiles starts its walk of the output directory.
BeginProcess ==
  /\ pc = "Copy" /\ queue = << >>
  /\ queue' = WalkFrom(fs, outputDir)
  /\ pc' = "Process"
  /\ UNCHANGED << fs, fs0, fsLower0, args, rootEntry, err, helperVars >>

\* ProcessHtmlFiles: the callback on the next walked entry.
ProcessEntry ==
  /\ pc = "Process" /\ queue # << >>
  /\ LET path == Head(queue)
         r == IF IsHtmlDocument(fs, path)
              THEN ConvertSingleHtmlFile(fs, path) ELSE Ok(fs)
     IN  IF r.err THEN Abort(r.fs)
         ELSE /\ fs' = r.fs
              /\ queue' = Tail(queue)
              /\ UNCHANGED << pc, err >>
  /\ UNCHANGED << fs0, fsLower0, args, rootEntry, helperVars >>

\* RenameHtmlFiles collects the documents.
BeginRenameHtml ==
  /\ pc = "Process" /\ queue = << >>
  /\ queue' = CollectHtmlFiles(fs, outputDir)
  /\ pc' = "RenameHtml"
  /\ UNCHANGED << fs, fs0, fsLower0, args, rootEntry, err, helperVars >>

\* RenameHtmlFiles: the loop body on the next collected document.
RenameEntry ==
  /\ pc = "RenameHtml" /\ queue # << >>
  /\ fs' = RenameHtmlFile(fs, Head(queue), args.RenamePrefix)
  /\ queue' = Tail(queue)
  /\ UNCHANGED << fs0, fsLower0, args, pc, rootEntry, err, helperVars >>

\* RenameDirectoriesToLowercase collects the directories and reverses the list.
BeginLowerDirs ==
  /\ pc = "RenameHtml" /\ queue = << >>
  /\ queue' = CollectDirectories(fs, outputDir)
  /\ fsLower0' = fs
  /\ pc' = "LowerDirs"
  /\ UNCHANGED << fs, fs0, args, rootEntry, err, helperVars >>

\* A loop body that returns the error of renameSingleDirectoryToLowercase.
LowerEntryFatal ==
  /\ pc = "LowerDirs" /\ queue # << >>
  /\ LET r == renameSingleDirectoryToLowercase(fs, Head(queue))
     IN  IF r.err THEN Abort(r.fs)
         ELSE /\ fs' = r.fs
              /\ queue' = Tail(queue)
              /\ UNCHANGED << pc, err >>
  /\ UNCHANGED << fs0, fsLower0, args, rootEntry, helperVars >>

\* RenameDirectoriesToLowercase: the loop body on the next directory; an error
\* of renameSingleDirectoryToLowercase is logged.
LowerEntry ==
  /\ pc = "LowerDirs" /\ queue # << >>
  /\ fs' = renameSingleDirectoryToLowercase(fs, Head(queue)).fs
  /\ queue' = Tail(queue)
  /\ UNCHANGED << fs0, fsLower0, args, pc, rootEntry, err, helperVars >>

\* GenerateBookToml
GenerateBookToml ==
  /\ pc = "LowerDirs" /\ queue = << >>
  /\ LET r == WriteFile(fs, Join(outputDir, BookTomlName),
                        FileNode(<< >>, "toml", TitleOf(Base(outputDir))))
     IN  IF r.err THEN Abort(r.fs)
         ELSE /\ fs' = r.fs
              /\ pc' = "BuildTree"
              /\ UNCHANGED << queue, err >>
  /\ UNCHANGED << fs0, fsLower0, args, rootEntry, helperVars >>

\* GenerateSummaryMd: the tree is built.
BuildTree ==
  /\ pc = "BuildTree"
  /\ rootEntry' = BuildDirectoryTreeAfterRename(fs, outputDir, args.RenamePrefix)
  /\ pc' = "WriteSummary"
  /\ UNCHANGED << fs, fs0, fsLower0, args, queue, err, helperVars >>

\* GenerateSummaryMd: the outline is written; ConvertHtmlToMarkdown returns.
WriteSummary ==
  /\ pc = "WriteSummary"
  /\ LET r == WriteFile(fs, Join(outputDir, SummaryName),
                        FileNode(<< >>, "summary", SummaryLines(fs, outputDir, rootEntry)))
     IN  /\ fs' = r.fs
         /\ err' = r.err
  /\ pc' = "Done"
  /\ UNCHANGED << fs0, fsLower0, args, queue, rootEntry, helperVars >>

\* main is run once more with the same arguments, over what a first run that
\* created the output directory has left.
Restart ==
  /\ pc = "Done" /\ ~err /\ ~Exists(fs0, outputDir)
  /\ fs0' = fs
  /\ fsLower0' = NoInput
  /\ pc' = "Start"
  /\ queue' = << >>
  /\ rootEntry' = NoTree
  /\ UNCHANGED << fs, args, err, helperVars >>

Next ==
  \/ Restart
  \/ Start
  \/ CopyEntry
  \/ BeginProcess
  \/ ProcessEntry
  \/ BeginRenameHtml
  \/ RenameEntry
  \/ BeginLowerDirs
  \/ LowerEntry
  \/ GenerateBookToml
  \/ BuildTree
  \/ WriteSummary

Spec == Init /\ [][Next]_vars

(***************************************************************************)
(* The pure functions on their own: the three places that swap the         *)
(* extension, the link rewrite, and the sort of the tree. A behaviour      *)
(* draws one input and applies one function to it again and again.         *)
(***************************************************************************)

MaxExts == 3
MaxApply == 2
MaxSiblings == 3
MaxTreeEntries == 3

ExtHtmlUpper == << ".", "H", "T", "M", "L" >>
Stems == { << "o", "t", "h", "e", "r" >>, << "P", "a", "g", "e" >> }
RelativeDirs == { << >>, << "D", "i", "r", "/" >>, << ".", ".", "/", "U", "p", "/" >> }
AbsoluteDirs == { << "h", "t", "t", "p", ":", "/", "/", "H", "o", "s", "t", "/", "D", "i", "r", "/" >>, << "/", "R", "o", "o", "t", "/" >> }
Fragments == { << >>, << "#", "i", "n", "t", "r", "o" >> }
LinkLabel == << "S", "e", "e" >>

\* The extensions a sampled name is built from.
Exts == { ExtHtml, ExtHtmlUpper, ExtMd }

\* The concatenations of at most n extensions.
RECURSIVE ExtTails(_)
ExtTails(n) ==
  IF n = 0 THEN { << >> }
  ELSE ExtTails(n - 1) \cup { t \o e : t \in ExtTails(n - 1), e \in Exts }

\* A sampled path or text with the parts it is built from.
Sample(site, dir, stem, exts, frag, val) ==
  [ site |-> site, dir |-> dir, stem |-> stem, exts |-> exts, frag |-> frag,
    val |-> val, list |-> << >>, depth |-> 0 ]

\* The paths handed to one of the extension swaps. The swap of a link target is
\* sampled on file names, the two others on names with and without a directory.
PathSamples(site, dirs) ==
  { Sample(site, d, n, x, << >>, d \o n \o x) :
      d \in dirs, n \in Stems, x \in ExtTails(MaxExts) }

\* The texts handed to ConvertHtmlLinksToMd: one link, its target built from a
\* directory, a stem, extensions and a fragment.
LinkSamples ==
  { Sample("rewrite", d, n, x, g,
           << "[" >> \o LinkLabel \o << "]", "(" >> \o d \o n \o x \o g \o << ")" >>) :
      d \in RelativeDirs \cup AbsoluteDirs, n \in Stems,
      x \in ExtTails(MaxExts), g \in Fragments }

\* What may stand before a link, what may label it, what may follow the .html of
\* its target, and what may stand behind it.
TextsBefore == { << >>, << "s", "e", "e", " " >>, << "[", "n", "]", "(", "n", ".", "h", "t", "m", ")", " " >> }
LinkLabels == { << >>, LinkLabel, << "a", " ", "(", "b", ")", "*" >> }
TargetTails ==
  { << >>, << "#", "i", "n", "t", "r", "o" >>, << "#", "a", ".", "h", "t", "m", "l" >>,
    << ".", "b", "a", "k" >>, << "?", "q", "=", "1" >> }
TextsAfter == { << >>, << " ", "e", "n", "d", "." >>, << " ", "(", "z", ".", "h", "t", "m", "l", ")" >> }

\* The texts handed to ConvertHtmlLinksToMd that hold one link amid other text;
\* list keeps the text before the link, the label, and the text behind the link.
TextSamples ==
  { [ site |-> "text", dir |-> d, stem |-> n, exts |-> x, frag |-> g,
      val |-> b \o << "[" >> \o l \o << "]", "(" >> \o d \o n \o x \o g \o << ")" >> \o a,
      list |-> << b, l, a >>, depth |-> 0 ] :
      d \in { << >>, << "D", "i", "r", "/" >> }, n \in Stems, x \in ExtTails(1),
      g \in TargetTails, b \in TextsBefore, l \in LinkLabels, a \in TextsAfter }

\* The entries the output trees handed to BuildDirectoryTreeAfterRename are
\* drawn from: documents, other files, renamed originals, hidden entries, the
\* generated files, and directories, one of them named like a renamed original.
TreePool ==
  << [ p |-> << "p", "a", "g", "e", ".", "m", "d" >>, d |-> FALSE ],
     [ p |-> << "a", ".", "t", "x", "t" >>, d |-> FALSE ],
     [ p |-> << "_", "p", "a", "g", "e", ".", "h", "t", "m", "l" >>, d |-> FALSE ],
     [ p |-> << "p", "a", "g", "e", ".", "h", "t", "m", "l" >>, d |-> FALSE ],
     [ p |-> << ".", "h", "i", "d", "/", "x", ".", "m", "d" >>, d |-> FALSE ],
     [ p |-> << ".", "x", ".", "m", "d" >>, d |-> FALSE ],
     [ p |-> << "b", "o", "o", "k", ".", "t", "o", "m", "l" >>, d |-> FALSE ],
     [ p |-> << "S", "U", "M", "M", "A", "R", "Y", ".", "m", "d" >>, d |-> FALSE ],
     [ p |-> << "s", "u", "b", "/", "c", "h", "i", "l", "d", ".", "m", "d" >>, d |-> FALSE ],
     [ p |-> << "s", "u", "b", "/", "d", "e", "e", "p", "/", "n", ".", "m", "d" >>, d |-> FALSE ],
     [ p |-> << "_", "d", ".", "h", "t", "m", "l", "/", "x", ".", "m", "d" >>, d |-> FALSE ],
     [ p |-> << "e" >>, d |-> TRUE ] >>

\* The ascending sequences of at most n indices of TreePool.
TreeLists(n) ==
  { q \in UNION { [ 1..k -> 1..Len(TreePool) ] : k \in 0..n } :
      \A a, b \in 1..Len(q) : a < b => q[a] < q[b] }

\* The filesystem that holds the output directory with the listed pool entries.
TreeFs(list) ==
  LET at(i) == Join(OutputDirOf([ InputDir |-> InputDirName, Suffix |-> DefaultSuffix ]),
                    TreePool[list[i]].p)
      own == { at(i) : i \in 1..Len(list) }
      dirs == {OutputDirOf([ InputDir |-> InputDirName, Suffix |-> DefaultSuffix ])}
             \cup UNION { Ancestors(at(i)) : i \in 1..Len(list) }
             \cup { at(i) : i \in { k \in 1..Len(list) : TreePool[list[k]].d } }
  IN  [ q \in own \cup dirs |->
          IF q \in dirs THEN DirNode ELSE FileNode(<< >>, "raw", << >>) ]

\* The output trees handed to BuildDirectoryTreeAfterRename.
TreeSamples ==
  { [ site |-> "tree", dir |-> << >>, stem |-> << >>, exts |-> << >>, frag |-> << >>,
      val |-> << >>, list |-> q, depth |-> 0 ] : q \in TreeLists(MaxTreeEntries) }

\* A directory entry with the given children.
DirWith(name, children) == [ Entry(name, name, TRUE) EXCEPT !.Children = children ]

\* The entries sibling lists are drawn from; one directory has children of its own.
SiblingPool ==
  << Entry(<< "a", ".", "m", "d" >>, << "a", ".", "m", "d" >>, FALSE),
     Entry(<< "B", ".", "m", "d" >>, << "B", ".", "m", "d" >>, FALSE),
     DirWith(<< "b" >>, << Entry(<< "z", ".", "m", "d" >>, << "z", ".", "m", "d" >>, FALSE), DirWith(<< "a" >>, << >>),
                      Entry(<< "B", ".", "m", "d" >>, << "B", ".", "m", "d" >>, FALSE) >>),
     DirWith(<< "B" >>, << >>),
     Entry(<< "a", "b", ".", "m", "d" >>, << "a", "b", ".", "m", "d" >>, FALSE) >>

\* The sequences of at most n different indices of the pool.
IndexLists(n) ==
  { q \in UNION { [ 1..k -> 1..Len(SiblingPool) ] : k \in 0..n } :
      \A a, b \in 1..Len(q) : a # b => q[a] # q[b] }

\* The tree that holds the listed pool entries as the children of the root
\* (depth 1) or of the one directory the root holds (depth 2).
TreeOf(list, depth) ==
  LET children == [ i \in 1..Len(list) |-> SiblingPool[list[i]] ]
  IN  IF depth = 1 THEN DirWith(InputDirName, children)
      ELSE DirWith(InputDirName, << DirWith(<< "b" >>, children) >>)

\* The sibling lists handed to sortDirectoryTree.
SortSamples ==
  { [ site |-> "sort", dir |-> << >>, stem |-> << >>, exts |-> << >>, frag |-> << >>,
      val |-> << >>, list |-> q, depth |-> k ] :
      q \in IndexLists(MaxSiblings), k \in {1, 2} }

HelperInit ==
  /\ fs = NoInput /\ fs0 = NoInput /\ fsLower0 = NoInput
  /\ \E prefix \in Prefixes :
       args = [ InputDir |-> InputDirName, Suffix |-> DefaultSuffix,
                RenamePrefix |-> prefix ]
  /\ pc = "Helper"
  /\ queue = << >>
  /\ rootEntry = NoTree
  /\ err = FALSE
  /\ \/ sample \in PathSamples("output", RelativeDirs)
     \/ sample \in PathSamples("link", { << >> })
     \/ sample \in PathSamples("display", RelativeDirs)
     \/ sample \in LinkSamples
     \/ sample \in SortSamples
     \/ sample \in TextSamples
     \/ sample \in TreeSamples
  /\ sample.site # "tree" => args.RenamePrefix = DefaultPrefix
  /\ applied = << >>

\* What the function is applied to next: the sample, or the last result.
Latest ==
  IF applied # << >> THEN applied[Len(applied)]
  ELSE IF sample.site = "sort" THEN TreeOf(sample.list, sample.depth)
  ELSE sample.val

\* One more application of the function of the given site.
Apply(site, result) ==
  /\ pc = "Helper" /\ sample.site = site /\ Len(applied) < MaxApply
  /\ applied' = Append(applied, result)
  /\ UNCHANGED << fs, fs0, fsLower0, args, pc, queue, rootEntry, err, sample >>

\* ConvertSingleHtmlFile: the output path is derived.
ApplyOutputSwap == Apply("output", MdPathOf(Latest))

\* ConvertHtmlLinksToMd: the target of a matched link is derived.
ApplyLinkSwap == Apply("link", LinkMdPath(Latest))

\* BuildDirectoryTreeAfterRename: the display path is derived.
ApplyDisplaySwap == Apply("display", DisplayPathOf(Latest))

\* ConvertHtmlLinksToMd on a text.
ApplyRewrite == Apply("rewrite", ConvertHtmlLinksToMd(Latest))

\* ConvertHtmlLinksToMd on a text that holds a link amid other text.
ApplyRewriteText == Apply("text", ConvertHtmlLinksToMd(Latest))

\* BuildDirectoryTreeAfterRename on an output tree.
ApplyBuildTree ==
  Apply("tree", BuildDirectoryTreeAfterRename(TreeFs(sample.list), outputDir,
                                              args.RenamePrefix))

\* sortDirectoryTree on a tree.
ApplySort == Apply("sort", sortDirectoryTree(Latest))

HelperNext ==
  \/ ApplyOutputSwap
  \/ ApplyLinkSwap
  \/ ApplyDisplaySwap
  \/ ApplyRewrite
  \/ ApplySort
  \/ ApplyRewriteText
  \/ ApplyBuildTree

HelperSpec == HelperInit /\ [][HelperNext]_vars

(***************************************************************************)
(* What the claims speak of.                                               *)
(***************************************************************************)

\* ConvertHtmlToMarkdown has returned without an error.
Finished == pc = "Done" /\ ~err

\* The run began without an output directory, which it created and copied into.
FirstRun == ~Exists(fs0, outputDir)

\* The source documents of the input tree.
InputDocs ==
  { p \in DOMAIN fs0 : IsUnder(args.InputDir, p) /\ IsHtmlDocument(fs0, p) }

\* The path of an input entry relative to the input directory.
InputRel(p) == Rel(args.InputDir, p)

\* The places in the output tree that hold the converted text of input document d.
ConvertedAt(d) ==
  { q \in DOMAIN fs : IsUnder(outputDir, q) /\ fs[q].form = "md"
                      /\ fs[q].src = InputRel(d) }

\* No two entries of the tree differ only by letter case.
NoCaseCollision(f) ==
  \A p \in DOMAIN f : \A q \in DOMAIN f : ToLower(p) = ToLower(q) => p = q

\* The lines of the SUMMARY.md of the output directory.
OutlineLines == fs[Join(outputDir, SummaryName)].body

\* Whether a segment of the path starts with a dot.
IsHiddenPath(rel) ==
  LET parts == SplitSlash(rel)
  IN  \E i \in 1..Len(parts) : HasPrefix(parts[i], Dot)

\* The .md documents of the output tree an outline can reach: not hidden, not
\* SUMMARY.md.
ReachableMdDocs ==
  { q \in DOMAIN fs : /\ IsUnder(outputDir, q)
                      /\ ~fs[q].isDir
                      /\ HasSuffix(Base(q), ExtMd)
                      /\ Base(q) # SummaryName
                      /\ ~IsHiddenPath(Rel(outputDir, q)) }

\* The linked lines of the outline whose target is path q of the output tree.
LinkedLinesTo(q) ==
  { i \in 1..Len(OutlineLines) :
      OutlineLines[i].linked /\ Join(outputDir, OutlineLines[i].target) = q }

\* C1 (as claimed): after a complete run every relative link the rewrite matched
\* in a source document, whose target is a document of the input tree, leads from
\* each place of the converted text to the converted text of that document.
C1_RewrittenLinksResolve ==
  Finished /\ FirstRun =>
    \A d \in InputDocs :
      LET ms == MatchesFrom(fs0[d].body, 1)
      IN  \A i \in 1..Len(ms) :
            LET e == Join(Dir(d), BackslashToSlash(ms[i].htmlPath))
            IN  IsRelativeTarget(ms[i].htmlPath) /\ e \in InputDocs =>
                  \A at \in ConvertedAt(d) :
                    LET t == Join(Dir(at), LinkMdPath(ms[i].htmlPath))
                    IN  IsFileAt(fs, t) /\ fs[t].form = "md"
                        /\ fs[t].src = InputRel(e)

\* C2 (as claimed): every linked line of SUMMARY.md leads to a .md document of the
\* final tree, and every reachable .md document is the target of exactly one
\* linked line, the Introduction line counted.
C2_OutlineMatchesTree ==
  Finished =>
    /\ \A i \in 1..Len(OutlineLines) :
         OutlineLines[i].linked =>
           Join(outputDir, OutlineLines[i].target) \in ReachableMdDocs
    /\ \A q \in ReachableMdDocs : Cardinality(LinkedLinesTo(q)) = 1

\* Two paths that agree up to the letter case of their directory segments.
SameUpToDirCase(p, q) == Base(p) = Base(q) /\ ToLower(Dir(p)) = ToLower(Dir(q))

\* The directory RenameDirectoriesToLowercase handles next lowercases onto an
\* existing directory.
NextCollides ==
  /\ pc = "LowerDirs" /\ queue # << >>
  /\ Base(Head(queue)) # ToLower(Base(Head(queue)))
  /\ IsDirAt(fs, Head(queue))
  /\ IsDirAt(fs, Join(Dir(Head(queue)), ToLower(Base(Head(queue)))))

\* The lowercase path the next directory is to be renamed to.
NextFinalPath == Join(Dir(Head(queue)), ToLower(Base(Head(queue))))

\* The relative paths at which both colliding directories hold a regular file.
CommonFiles ==
  { SubSeq(p, Len(NextFinalPath) + 2, Len(p)) :
      p \in { q \in DOMAIN fs :
                /\ HasPrefix(q, NextFinalPath \o << "/" >>)
                /\ IsFileAt(fs, q)
                /\ IsFileAt(fs, Join(Head(queue),
                                     SubSeq(q, Len(NextFinalPath) + 2, Len(q)))) } }

\* A directory of one colliding directory lies where the other holds a file, or
\* below it (the case in which mergeDirectories cannot create the directory).
KindConflict ==
  \E p \in DOMAIN fs : \E q \in DOMAIN fs :
    /\ HasPrefix(p, NextFinalPath \o << "/" >>)
    /\ HasPrefix(q, Head(queue) \o << "/" >>)
    /\ IsFileAt(fs, q)
    /\ LET pr == SubSeq(p, Len(NextFinalPath) + 2, Len(p))
           qr == SubSeq(q, Len(Head(queue)) + 2, Len(q))
       IN  (fs[p].isDir /\ pr = qr) \/ HasPrefix(pr, qr \o << "/" >>)

ClaimedOriginal(d) ==
  Join(outputDir, Join(ToLower(Dir(InputRel(d))), args.RenamePrefix \o Base(d)))

\* The name the code gives it: the prefix, then the name in lower case.
LoweredOriginal(d) ==
  Join(outputDir, Join(ToLower(Dir(InputRel(d))), args.RenamePrefix \o ToLower(Base(d))))

\* The .md file of an input document by the claim: the name with .html replaced.
ClaimedMd(d) ==
  Join(outputDir, Join(ToLower(Dir(InputRel(d))), TrimSuffix(Base(d), ExtHtml) \o ExtMd))

\* The same, a stem that ends in .md not given a second .md.
TrimmedMd(d) ==
  Join(outputDir, Join(ToLower(Dir(InputRel(d))),
                       TrimSuffix(TrimSuffix(Base(d), ExtHtml), ExtMd) \o ExtMd))

\* The input documents whose name ends in .html as written.
LowerExtDocs == { d \in InputDocs : HasSuffix(d, ExtHtml) }

C4_Covered ==
  { d \in LowerExtDocs :
      /\ ~Exists(fs0, Join(Dir(d), args.RenamePrefix \o ToLower(Base(d))))
      /\ \A e \in InputDocs : e # d /\ Dir(e) = Dir(d) => MdPathOf(e) # MdPathOf(d) }

\* The tree holds no entry whose name ends in _temp_rename.
NoTempNames(f) == \A p \in DOMAIN f : ~HasSuffix(p, TempRenameSuffix)

C5_Docs(docs) ==
  { d \in docs :
      /\ ~HasSuffix(SubSeq(d, 1, Len(d) - Len(ExtHtml)), ExtMd)
      /\ \A e \in InputDocs : e # d => MdPathOf(e) # MdPathOf(d) }

\* The converted text of input document d is at the sibling path stem.md of the
\* output tree, the stem being the name without its last five characters.
ConvertedAtStem(d) ==
  LET out == Join(outputDir, InputRel(d))
      mdPath == SubSeq(out, 1, Len(out) - Len(ExtHtml)) \o ExtMd
  IN  IsFileAt(fs, mdPath) /\ fs[mdPath].form = "md" /\ fs[mdPath].src = InputRel(d)

\* C5 (as claimed, its first half): when ProcessHtmlFiles is through, every input
\* file whose name ends in .html in any letter case has its converted text at the
\* sibling path stem.md.
C5_ConvertedAtStemMd ==
  pc = "Process" /\ queue = << >> => \A d \in C5_Docs(InputDocs) : ConvertedAtStem(d)

\* The tree doc/page.html, doc/sub/child.html.
C9_Tree == InputTree({1, 5}, CHOOSE t \in DocTexts : TRUE)

\* The outline lines of the scenario.
C9_Page == LinkLine(0, << "p", "a", "g", "e" >>, << "p", "a", "g", "e", ".", "m", "d" >>)
C9_Sub == HeadingLine(0, << "s", "u", "b" >>)
C9_Child ==
  LinkLine(1, << "c", "h", "i", "l", "d" >>,
           << "s", "u", "b", "/", "c", "h", "i", "l", "d", ".", "m", "d" >>)

\* C9 (as claimed): the outline of doc/page.html, doc/sub/child.html lists page,
\* then the heading sub with child beneath it.
C9_PageFirst ==
  Finished /\ fs0 = C9_Tree => OutlineLines = << C9_Page, C9_Sub, C9_Child >>

\* C9 (amended): it lists the heading sub with child beneath it first, and page
\* after them: directories come before files.
C9_SubFirst ==
  Finished /\ fs0 = C9_Tree => OutlineLines = << C9_Sub, C9_Child, C9_Page >>

\* C9, its case reached: the run over that tree has written the outline.
C9_Witness == Finished /\ fs0 = C9_Tree /\ Len(OutlineLines) = 3

\* The text of a link with the given label and target.
LinkText(label, target) == << "[" >> \o label \o << "]", "(" >> \o target \o << ")" >>

\* The sampled text is one link whose target is a stem with the single extension
\* html in some letter case, and ConvertHtmlLinksToMd has been applied to it.
RewrittenDocumentLink ==
  /\ pc = "Helper" /\ sample.site = "rewrite" /\ applied # << >>
  /\ ToLower(sample.exts) = ExtHtml

\* C6 (as claimed): a link whose relative target ends in the extension html in
\* any letter case, with or without a fragment, is rewritten to the same link with
\* the extension replaced by .md, the directory segments lowercased and the
\* fragment unchanged.
C6_AnyCaseLinkRewritten ==
  RewrittenDocumentLink /\ sample.dir \in RelativeDirs =>
    applied[1] = LinkText(LinkLabel, ToLower(sample.dir) \o sample.stem \o ExtMd
                                      \o sample.frag)

\* C10 (as claimed): a link whose target is an absolute URL or a root-relative
\* path has only its extension changed to .md.
C10_AbsoluteOnlySwapped ==
  RewrittenDocumentLink /\ sample.dir \in AbsoluteDirs /\ sample.exts = ExtHtml =>
    applied[1] = LinkText(LinkLabel, sample.dir \o sample.stem \o ExtMd \o sample.frag)

\* C7 (as claimed): at the three places that derive a .md path, a path that ends
\* in .md comes back unchanged, no result ends in .md.md, and a second
\* application gives what the first gave; the same holds of a second application
\* of the whole link rewrite.
C7_SwapIdempotent ==
  pc = "Helper" /\ applied # << >> =>
    /\ sample.site \in {"output", "link", "display"} =>
         /\ HasSuffix(sample.val, ExtMd) => applied[1] = sample.val
         /\ ~HasSuffix(applied[1], ExtMd \o ExtMd)
    /\ sample.site \in {"output", "link", "display", "rewrite"} =>
         \A i \in 1..Len(applied) : applied[i] = applied[1]

\* Whether entry a stands before entry b in the order of the outline: a
\* directory before a file, and of two of a kind the one whose name is less.
Before(a, b) ==
  \/ a.IsDir /\ ~b.IsDir
  \/ a.IsDir = b.IsDir /\ StrLess(a.Name, b.Name)

\* Whether res is orig with the children of every directory, at every depth,
\* permuted into that order.
RECURSIVE SortedLike(_, _)
SortedLike(orig, res) ==
  /\ res.Name = orig.Name /\ res.Path = orig.Path /\ res.IsDir = orig.IsDir
  /\ Len(res.Children) = Len(orig.Children)
  /\ \A i \in 1..Len(res.Children) : \A j \in 1..Len(res.Children) :
       i < j => Before(res.Children[i], res.Children[j])
  /\ \E perm \in [ 1..Len(orig.Children) -> 1..Len(orig.Children) ] :
       /\ \A i, j \in 1..Len(orig.Children) : i # j => perm[i] # perm[j]
       /\ \A i \in 1..Len(orig.Children) :
            SortedLike(orig.Children[i], res.Children[perm[i]])

\* The lists that hold the elements of list in some order.
Reorderings(list) ==
  { [ i \in 1..Len(list) |-> list[perm[i]] ] :
      perm \in { q \in [ 1..Len(list) -> 1..Len(list) ] :
                   \A i, j \in 1..Len(list) : i # j => q[i] # q[j] } }

\* C8: sortDirectoryTree leaves the children of every directory of the tree, at
\* every depth, as a permutation of what they were, directories before files and
\* each group ascending by name; every order of the same siblings gives the same
\* result, and sorting again changes nothing.
C8_SortedWhateverTheOrder ==
  pc = "Helper" /\ sample.site = "sort" /\ applied # << >> =>
    /\ SortedLike(TreeOf(sample.list, sample.depth), applied[1])
    /\ \A q \in Reorderings(sample.list) :
         sortDirectoryTree(TreeOf(q, sample.depth)) = applied[1]
    /\ \A i \in 1..Len(applied) : applied[i] = applied[1]

\* C8, its case reached: three siblings, files and a directory with children of
\* its own, listed in an order the sort has to change, below the root.
C8_Witness ==
  /\ pc = "Helper" /\ sample.site = "sort" /\ applied # << >>
  /\ sample.list = << 5, 3, 1 >> /\ sample.depth = 2
  /\ applied[1] # TreeOf(sample.list, sample.depth)

\* The directories below the output directory whose name is not in lower case.
UppercaseDirs ==
  { p \in DOMAIN fs : IsUnder(outputDir, p) /\ fs[p].isDir /\ Base(p) # ToLower(Base(p)) }

\* C11 (as claimed): when RenameDirectoriesToLowercase is through, on a tree
\* without names ending in _temp_rename, every directory below the output root
\* has a lower-case name, also when the lower-case name of a directory was taken
\* by a sibling directory.
C11_AllDirectoriesLowercase ==
  pc = "LowerDirs" /\ queue = << >> /\ NoTempNames(fsLower0) => UppercaseDirs = {}

\* The stages of a run in their order, and the stage that follows each.
StageAfter ==
  [ Start |-> "Copy", Copy |-> "Process", Process |-> "RenameHtml",
    RenameHtml |-> "LowerDirs", LowerDirs |-> "BuildTree",
    BuildTree |-> "WriteSummary", WriteSummary |-> "Done", Done |-> "Start" ]

\* The Markdown documents the run has written so far.
ConvertedSoFar ==
  { p \in DOMAIN fs : fs[p].form = "md" /\ (p \notin DOMAIN fs0 \/ fs0[p] # fs[p]) }

\* Every entry of the input tree has its copy in the output tree.
CopyComplete ==
  \A p \in DOMAIN fs0 :
    IsUnder(args.InputDir, p) => Exists(fs, Join(outputDir, InputRel(p)))

\* What holds of every state of a run on account of the order of the stages.
StagesInOrderState ==
  /\ pc \in {"Start", "Copy"} => ConvertedSoFar = {}
  /\ pc = "Process" /\ FirstRun => CopyComplete
  /\ rootEntry # NoTree =>
       /\ pc \in {"WriteSummary", "Done"}
       /\ fsLower0 # NoInput
  /\ pc \in DOMAIN StageAfter /\ pc # "Done" =>
       ~(IsFileAt(fs, Join(outputDir, SummaryName))
         /\ fs[Join(outputDir, SummaryName)].form = "summary"
         /\ (~Exists(fs0, Join(outputDir, SummaryName))
             \/ fs0[Join(outputDir, SummaryName)] # fs[Join(outputDir, SummaryName)]))
  /\ err => pc = "Done"

\* What holds of every step of a run: the stage stays or gives way to the next
\* one, which it does only with its work done and without an error; a step that
\* returns an error ends the run, and no step follows an error.
StagesInOrderStep ==
  pc \in DOMAIN StageAfter =>
    /\ ~err
    /\ err' => pc' = "Done"
    /\ ~err' => pc' \in {pc, StageAfter[pc]}
    /\ ~err' /\ pc' # pc => queue = << >>

\* C12: the stages of ConvertHtmlToMarkdown happen in the order copy, convert,
\* rename originals, lowercase directories, build the tree, write the outline:
\* no document is converted before the copy has finished, the tree is not built
\* before the lowercase pass has finished, the outline is not written before
\* the tree is built, and a stage starts only when no earlier stage has returned
\* an error.
C12_StagesInOrder == [](StagesInOrderState) /\ [][StagesInOrderStep]_vars

\* C12, its case reached: a first run over a tree with documents has gone
\* through every stage and has written the outline.
C12_Witness ==
  /\ Finished /\ FirstRun /\ InputDocs # {} /\ ConvertedSoFar # {}
  /\ rootEntry # NoTree
  /\ IsFileAt(fs, Join(outputDir, SummaryName))

\* C13: when the input path does not exist or is not a directory, the run ends
\* with an error and has created nothing: the filesystem is what it was.
C13_BadInputCreatesNothing ==
  pc = "Done" /\ ~IsDirAt(fs0, args.InputDir) => err /\ fs = fs0

\* The next original document cannot be renamed: its new name is taken, or
\* os.Rename fails.
RenameHtmlFails ==
  /\ pc = "RenameHtml" /\ queue # << >>
  /\ \/ Exists(fs, RenamedHtmlPath(Head(queue), args.RenamePrefix))
     \/ Rename(fs, Head(queue), RenamedHtmlPath(Head(queue), args.RenamePrefix)).err

\* The next directory cannot be renamed to its lower-case name.
RenameDirFails ==
  /\ pc = "LowerDirs" /\ queue # << >>
  /\ renameSingleDirectoryToLowercase(fs, Head(queue)).err

\* C14: a directory or an original document that cannot be renamed, a collision
\* with an existing target included, does not end the run: the step returns no
\* error and leaves the stage to go on with the remaining entries, so that a
\* rename stage never holds an error.
C14_RenameFailureNotFatal ==
  /\ [][RenameHtmlFails \/ RenameDirFails =>
          ~err' /\ pc' = pc /\ queue' = Tail(queue) /\ fs0' = fs0]_vars
  /\ [](pc \in {"RenameHtml", "LowerDirs"} => ~err)

\* C14, its case reached: the run has gone through the later stages and ended
\* without an error although a directory kept its name because the lower-case
\* name was taken.
C14_Witness ==
  /\ Finished /\ FirstRun /\ rootEntry # NoTree
  /\ \E d \in UppercaseDirs : IsDirAt(fs, Join(Dir(d), ToLower(Base(d))))

\* The directories below the output directory when the lowercase pass began, in
\* the order in which a top-down walk meets them.
TopDownDirs ==
  LET Test(p) == fsLower0[p].isDir /\ p # outputDir
  IN  SelectSeq(WalkFrom(fsLower0, outputDir), Test)

\* C15: RenameDirectoriesToLowercase handles the directories in the reverse of
\* the order of the top-down walk, every directory after all directories below
\* it, and every recorded path that is still to be handled names a directory,
\* so that it does when its turn comes.
C15_DeepestFirst ==
  pc = "LowerDirs" =>
    /\ \E k \in 0..Len(TopDownDirs) :
         queue = [ i \in 1..k |-> TopDownDirs[k + 1 - i] ]
    /\ \A i \in 1..Len(queue) :
         /\ IsDirAt(fs, queue[i])
         /\ \A p \in DOMAIN fsLower0 :
              fsLower0[p].isDir /\ p # queue[i] /\ IsUnder(queue[i], p) =>
                \A j \in i..Len(queue) : queue[j] # p

\* C15, its case reached: the next directory is handled after a directory below
\* it has been renamed, and its own name is still to be lowercased.
C15_Witness ==
  /\ pc = "LowerDirs" /\ queue # << >>
  /\ Base(Head(queue)) # ToLower(Base(Head(queue)))
  /\ \E p \in DOMAIN fsLower0 :
       /\ fsLower0[p].isDir /\ p # Head(queue) /\ IsUnder(Head(queue), p)
       /\ ~Exists(fs, p)
       /\ IsDirAt(fs, Join(Dir(p), ToLower(Base(p))))

\* The temporary path of the directory handled next.
NextTempPath == Join(Dir(Head(queue)), Base(Head(queue)) \o TempRenameSuffix)

\* The tree after the merge that precedes the rename of the next directory.
NextMerged ==
  IF Exists(fs, NextFinalPath)
  THEN mergeDirectories(fs, NextFinalPath, Head(queue)) ELSE Ok(fs)

\* The next directory gets its temporary name, and the rename from the temporary
\* name to the lower-case name fails.
PhaseTwoFails ==
  /\ pc = "LowerDirs" /\ queue # << >>
  /\ Base(Head(queue)) # ToLower(Base(Head(queue)))
  /\ ~NextMerged.err
  /\ Exists(NextMerged.fs, Head(queue))
  /\ ~Rename(NextMerged.fs, Head(queue), NextTempPath).err
  /\ Rename(Rename(NextMerged.fs, Head(queue), NextTempPath).fs,
            NextTempPath, NextFinalPath).err

\* The directories below the output directory whose name ends in _temp_rename
\* and that have no counterpart, up to letter case, in the tree the lowercase
\* pass began with.
TempDirsOfPass ==
  { p \in DOMAIN fs :
      /\ IsUnder(outputDir, p) /\ fs[p].isDir
      /\ HasSuffix(Base(p), TempRenameSuffix)
      /\ \A q \in DOMAIN fsLower0 : ToLower(q) # ToLower(p) }

\* C16: when the rename from the temporary name to the lower-case name fails,
\* the step leaves the directory under its original name with the files it had
\* and no entry under the temporary name, and renameSingleDirectoryToLowercase
\* returns an error; at no moment between two steps of the pass, nor after it,
\* does a directory carry a temporary name that the pass has made.
C16_RolledBack ==
  /\ [][PhaseTwoFails =>
          /\ renameSingleDirectoryToLowercase(fs, Head(queue)).err
          /\ IsDirAt(fs', Head(queue))
          /\ \A p \in DOMAIN fs :
               IsUnder(Head(queue), p) => p \in DOMAIN fs' /\ fs'[p] = fs[p]
          /\ ~Exists(fs', NextTempPath)]_vars
  /\ [](pc \in {"LowerDirs", "BuildTree", "WriteSummary", "Done"} =>
          TempDirsOfPass = {})

\* C16, its case reached: the pass is through and has left a directory under its
\* upper-case name, merged with its lower-case sibling, which is not empty, and
\* nothing under the temporary name.
C16_Witness ==
  /\ pc = "LowerDirs" /\ queue = << >>
  /\ \E d \in UppercaseDirs :
       LET final == Join(Dir(d), ToLower(Base(d)))
       IN  /\ IsDirAt(fs, final) /\ ~IsEmptyDir(fs, final)
           /\ \A p \in DOMAIN fs :
                IsUnder(final, p) =>
                  Exists(fs, d \o SubSeq(p, Len(final) + 1, Len(p)))
           /\ ~Exists(fs, Join(Dir(d), Base(d) \o TempRenameSuffix))

\* The link of a text sample is of the recognised shape: its target ends in
\* .html, with nothing behind it or a fragment that starts with #.
RecognisedLink ==
  /\ HasSuffix(sample.dir \o sample.stem \o sample.exts, ExtHtml)
  /\ sample.frag = << >> \/ sample.frag[1] = "#"

\* What stands before the target path of the link of a text sample, and what
\* stands behind it.
UpToTarget == sample.list[1] \o << "[" >> \o sample.list[2] \o << "]", "(" >>
FromTarget == sample.frag \o << ")" >> \o sample.list[3]

\* C17: ConvertHtmlLinksToMd changes the target path of a recognised link and
\* nothing else: the text before and behind the link, the label and the
\* fragment come back as they were, and a text whose link is not of the
\* recognised shape, its target going on behind .html with something that is no
\* fragment, comes back unchanged.
C17_OnlyTargetPathChanges ==
  pc = "Helper" /\ sample.site = "text" /\ applied # << >> =>
    IF RecognisedLink
    THEN /\ HasPrefix(applied[1], UpToTarget)
         /\ HasSuffix(applied[1], FromTarget)
         /\ Len(applied[1]) >= Len(UpToTarget) + Len(FromTarget)
    ELSE applied[1] = sample.val

\* The nodes below a node of the tree, from its i-th child on, each with the
\* path its names spell from the root and with its kind.
RECURSIVE NodesBelow(_, _, _)
NodesBelow(node, at, i) ==
  IF i > Len(node.Children) THEN << >>
  ELSE LET c == node.Children[i]
           p == IF at = << >> THEN c.Name ELSE at \o << "/" >> \o c.Name
       IN  << [ p |-> p, d |-> c.IsDir ] >> \o NodesBelow(c, p, 1)
             \o NodesBelow(node, at, i + 1)

\* The entries of the tree below rootDir the outline is to list: directories and
\* .md files, but nothing hidden or below a hidden directory, no book.toml, no
\* SUMMARY.md, and no prefixed original .html document.
ListedPaths(f, rootDir, prefix) ==
  { q \in DOMAIN f :
      /\ IsUnder(rootDir, q)
      /\ ~IsHiddenPath(Rel(rootDir, q))
      /\ Base(q) \notin {BookTomlName, SummaryName}
      /\ ~(~f[q].isDir /\ HasSuffix(ToLower(Base(q)), ExtHtml) /\ HasPrefix(Base(q), prefix))
      /\ f[q].isDir \/ HasSuffix(ToLower(Base(q)), ExtMd) }

\* The tree holds a node for nothing but the entries to be listed.
OnlyListedNodes(tree, f, rootDir, prefix) ==
  LET nodes == NodesBelow(tree, << >>, 1)
  IN  \A i \in 1..Len(nodes) :
        /\ Join(rootDir, nodes[i].p) \in ListedPaths(f, rootDir, prefix)
        /\ f[Join(rootDir, nodes[i].p)].isDir = nodes[i].d

\* Every entry to be listed has exactly one node, below the node of its parent.
EveryListedOnce(tree, f, rootDir, prefix) ==
  LET nodes == NodesBelow(tree, << >>, 1)
  IN  \A q \in ListedPaths(f, rootDir, prefix) :
        Cardinality({ i \in 1..Len(nodes) : nodes[i].p = Rel(rootDir, q) }) = 1

\* C18: the tree of BuildDirectoryTreeAfterRename holds no node for a hidden
\* entry, for book.toml or SUMMARY.md, for a prefixed original .html document,
\* for a file that is no .md file, or for anything below a hidden directory, and
\* every other directory and .md file has exactly one node, attached to the
\* node of its parent directory.
C18_TreeListsTheDocuments ==
  pc = "Helper" /\ sample.site = "tree" /\ applied # << >> =>
    /\ OnlyListedNodes(applied[1], TreeFs(sample.list), outputDir, args.RenamePrefix)
    /\ EveryListedOnce(applied[1], TreeFs(sample.list), outputDir, args.RenamePrefix)

\* The run works on the output tree a completed run has left: the outline that
\* run wrote is there from the start.
SecondRun ==
  /\ IsFileAt(fs0, Join(outputDir, SummaryName))
  /\ fs0[Join(outputDir, SummaryName)].form = "summary"

\* The paths of the regular files of the output tree in filesystem f.
OutputFilePaths(f) == { p \in DOMAIN f : IsUnder(outputDir, p) /\ ~f[p].isDir }

\* C19: a run that finds the output directory copies nothing into it, and a
\* run over the output tree of a completed run ends with the file paths of the
\* output tree it began with: nothing is converted or renamed once more.
C19_SecondRunKeepsPaths ==
  /\ ~FirstRun /\ pc = "Copy" => fs = fs0 /\ queue = << >>
  /\ SecondRun /\ Finished => OutputFilePaths(fs) = OutputFilePaths(fs0)

\* The paths of the input tree in filesystem f: the input directory and all
\* below it.
InputPaths(f) ==
  { p \in DOMAIN f : p = args.InputDir \/ IsUnder(args.InputDir, p) }

\* C20: a run does not modify the input tree, whatever the input directory and
\* the suffix: at every moment of the run, and so after it, successful or
\* failed, the input tree has the paths and the contents the run began with.
C20_InputTreeUntouched ==
  /\ InputPaths(fs) = InputPaths(fs0)
  /\ \A p \in InputPaths(fs0) : fs[p] = fs0[p]

\* ProcessHtmlFiles is about to convert the next walked entry, in a run that
\* has made the output directory and copied the input into it.
ConvertsNext ==
  /\ pc = "Process" /\ queue # << >> /\ FirstRun
  /\ IsHtmlDocument(fs, Head(queue))

\* C21: the conversion stage writes each converted document to a path at which
\* nothing is: it replaces neither a file copied from the input nor what an
\* earlier document of the same run was converted to.
C21_ConvertedPathUnoccupied ==
  ConvertsNext => ~Exists(fs, MdPathOf(Head(queue)))

\* The regular files of filesystem f.
FilesOf(f) == { p \in DOMAIN f : ~f[p].isDir }

\* What holds of every step of RenameHtmlFiles: with the new path taken nothing
\* changes; otherwise the document moves to the new path, every other entry
\* stays as it is, and the tree has as many files as before.
RenameStepKeepsFiles ==
  pc = "RenameHtml" /\ queue # << >> =>
    LET newPath == RenamedHtmlPath(Head(queue), args.RenamePrefix)
    IN  IF Exists(fs, newPath) THEN fs' = fs
        ELSE /\ DOMAIN fs' = (DOMAIN fs \ {Head(queue)}) \cup {newPath}
             /\ fs'[newPath] = fs[Head(queue)]
             /\ \A p \in DOMAIN fs \ {Head(queue)} : fs'[p] = fs[p]
             /\ Cardinality(FilesOf(fs')) = Cardinality(FilesOf(fs))

\* The copy of input entry p in the output tree, and the path RenameHtmlFiles
\* is to rename the copy of input document p to.
CopyOf(p) == Join(outputDir, InputRel(p))
TargetOf(p) == RenamedHtmlPath(CopyOf(p), args.RenamePrefix)

\* The input documents whose copies are to be renamed to the path that the copy
\* of p is to be renamed to.
SameTarget(p) == { q \in InputDocs : TargetOf(q) = TargetOf(p) }

\* The target of the copy of p is the copy of an input entry: it is taken
\* before RenameHtmlFiles begins.
TargetTaken(p) ==
  \E q \in DOMAIN fs0 : IsUnder(args.InputDir, q) /\ CopyOf(q) = TargetOf(p)

\* The copy of input document p has been renamed: it is at its target, intact.
IsRenamed(p) ==
  /\ ~Exists(fs, CopyOf(p))
  /\ IsFileAt(fs, TargetOf(p)) /\ fs[TargetOf(p)] = fs0[p]

\* The copy of input document p is where it was, intact.
HasStayed(p) == IsFileAt(fs, CopyOf(p)) /\ fs[CopyOf(p)] = fs0[p]

\* RenameHtmlFiles is through, in a run that copied the input.
RenamePassDone == pc = "RenameHtml" /\ queue = << >> /\ FirstRun

=============================================================================
